---------------------------- MODULE Spec2Model ----------------------------
(* github-proxy: the request pipeline (requestHandler), the installation    *)
(* token cache (getInstallationToken), the two-tier rate gate (checkLimits, *)
(* getClientLimiter, initGlobalLimiter), the sweep of the client registry   *)
(* (cleanupStaleLimiters), the content fetcher (GetFileContent) and the     *)
(* startup and shutdown of main.                                            *)
(*                                                                          *)
(* Time is an integer number of ticks; a second is TicksPerSecond ticks.    *)
(* A token bucket keeps its tokens in units of 1/every of a token, where    *)
(* every is the bucket's refill interval in ticks, so that one tick of      *)
(* elapsed time refills exactly one unit and the arithmetic stays integral. *)
EXTENDS Integers, Sequences, FiniteSets, TLC

VARIABLES
    now,                      \* the wall clock, time.Now()
    clockSteps,               \* how many times the clock has advanced
    ctxDone,                  \* ctx.Err() != nil: the shutdown signal was received
    mainPc,                   \* position of main: "start", "mint", "quota", "serving", "shutdown", "exited"
    installationToken,        \* the cached token (0 is the empty string)
    installationTokenExpiry,  \* the cached effective expiry (0 is the zero time)
    tokenMutex,               \* tokenMutex is locked
    issued,                   \* per token the upstream handed out, the expiry reported for it
    globalLimiter,            \* the global rate.Limiter (Nil before initGlobalLimiter)
    limiters,                 \* the heap of per-client rate.Limiter objects
    clientLimiters,           \* map client key -> clientLimiter{limiter, lastSeen}
    task,                     \* one record per request-serving goroutine
    limiterMutex,             \* limiterMutex is locked by the cleanup goroutine
    cleanup,                  \* the cleanup goroutine: its position and its timer
    shutdownAt                \* when main called server.Shutdown

vars == <<now, clockSteps, ctxDone, mainPc, installationToken,
          installationTokenExpiry, tokenMutex, issued, globalLimiter,
          limiters, clientLimiters, task, limiterMutex, cleanup, shutdownAt>>

-----------------------------------------------------------------------------
(* Bounds of the model *)

NumTasks == 2
MaxClockSteps == 1
TicksPerSecond == 2

Tasks == 1..NumTasks

-----------------------------------------------------------------------------
(* Durations and program constants *)

Second == TicksPerSecond
Minute == 60 * Second
Hour == 60 * Minute

SafetyMinutes == 3
SafetyMargin == SafetyMinutes * Minute
TokenLifetime == Hour

ClientRate == Minute \div 60
ClientBurst == 8

(* go cleanupStaleLimiters(ctx, 30*time.Minute) *)
IdleMinutes == 30
IdleTTL == IdleMinutes * Minute

(* context.WithTimeout(context.Background(), 5*time.Second) *)
GraceSeconds == 5
Grace == GraceSeconds * Second

StatusOK == 200
StatusBadRequest == 400
StatusForbidden == 403
StatusNotFound == 404
StatusMethodNotAllowed == 405
StatusTooManyRequests == 429
StatusInternalServerError == 500
StatusServiceUnavailable == 503

Nil == [nil |-> TRUE]

Min(a, b) == IF a < b THEN a ELSE b
Max(a, b) == IF a > b THEN a ELSE b


-----------------------------------------------------------------------------
(* Strings are sequences of one-character strings. *)

(* strings.Index(s, sep) for a one-character sep, 1-based; 0 when absent *)
IndexOf(s, c) ==
    IF \E i \in 1..Len(s) : s[i] = c
    THEN CHOOSE i \in 1..Len(s) : s[i] = c /\ \A j \in 1..(i - 1) : s[j] # c
    ELSE 0

(* strings.LastIndex(s, sep) for a one-character sep, 1-based; 0 when absent *)
LastIndex(s, c) ==
    IF \E i \in 1..Len(s) : s[i] = c
    THEN CHOOSE i \in 1..Len(s) : s[i] = c /\ \A j \in (i + 1)..Len(s) : s[j] # c
    ELSE 0

(* strings.SplitN(s, sep, n): at most n substrings, the last one the unsplit *)
(* remainder; n < 0 is no limit (strings.Split); n = 0 is nil               *)
RECURSIVE SplitN(_, _, _)
SplitN(s, sep, n) ==
    IF n = 0 THEN <<>>
    ELSE IF n = 1 THEN <<s>>
    ELSE LET i == IndexOf(s, sep)
         IN  IF i = 0 THEN <<s>>
             ELSE <<SubSeq(s, 1, i - 1)>>
                      \o SplitN(SubSeq(s, i + 1, Len(s)), sep, n - 1)

Split(s, sep) == SplitN(s, sep, -1)

IsSpace(c) == c \in {" ", "\t"}

RECURSIVE TrimLeft(_)
TrimLeft(s) ==
    IF Len(s) > 0 /\ IsSpace(s[1]) THEN TrimLeft(Tail(s)) ELSE s

RECURSIVE TrimRight(_)
TrimRight(s) ==
    IF Len(s) > 0 /\ IsSpace(s[Len(s)])
    THEN TrimRight(SubSeq(s, 1, Len(s) - 1))
    ELSE s

TrimSpace(s) == TrimRight(TrimLeft(s))

-----------------------------------------------------------------------------
(* The token bucket (rate.Limiter): burst is the capacity in tokens, every  *)
(* the refill interval in ticks per token, tokens the level at the current  *)
(* time in units of 1/every token.  The limiter computes its refill from    *)
(* the time elapsed since its last use; the level it would compute at the   *)
(* current time is kept here, brought forward whenever the clock advances.  *)

NewLimiter(every, burst) ==
    [every |-> every, burst |-> burst, tokens |-> burst * every]

Capacity(b) == b.burst * b.every

(* the time-proportional refill over d ticks, capped at the capacity *)
Refill(b, d) == [b EXCEPT !.tokens = Min(Capacity(b), @ + d)]

(* Allow: consume one token, or reject and leave the level as it is *)
Allow(b) ==
    IF b.tokens >= b.every
    THEN [ok |-> TRUE, lim |-> [b EXCEPT !.tokens = @ - b.every]]
    ELSE [ok |-> FALSE, lim |-> b]

-----------------------------------------------------------------------------
(* Requests: method, URL path, the two proxy headers and the peer address *)

PathFile == <<"/", "o", "/", "r", "/", "f">>
PathShort == <<"/", "o", "/", "r">>
PathHidden == <<"/", "o", "/", "r", "/", ".", "g">>

(* /o/r/d/f, /o/r/d/.g, /o/.r/f, /.o/r/f and /o/r/ (the ServeMux redirects  *)
(* a path with an empty inner segment before the handler sees it)           *)
PathDeep == <<"/", "o", "/", "r", "/", "d", "/", "f">>
PathDeepHidden == <<"/", "o", "/", "r", "/", "d", "/", ".", "g">>
PathHiddenRepo == <<"/", "o", "/", ".", "r", "/", "f">>
PathHiddenOwner == <<"/", ".", "o", "/", "r", "/", "f">>
PathNoFile == <<"/", "o", "/", "r", "/">>

AddrA == <<"a", ":", "1">>
AddrB == <<"b", ":", "1">>

Request(method, path, addr) ==
    [method |-> method, path |-> path, realIP |-> <<>>,
     forwardedFor |-> <<>>, remoteAddr |-> addr]

(* a POST with the X-Real-IP header, the X-Forwarded-For header and the     *)
(* peer address given                                                       *)
HeaderRequest(realIP, forwardedFor, addr) ==
    [method |-> "POST", path |-> PathFile, realIP |-> realIP,
     forwardedFor |-> forwardedFor, remoteAddr |-> addr]

(* X-Real-IP: 9 beside X-Forwarded-For: 7, 8 *)
ReqRealAndForwarded ==
    HeaderRequest(<<"9">>, <<"7", ",", " ", "8">>, AddrA)
(* X-Forwarded-For:  7 ,8 *)
ReqForwardedList == HeaderRequest(<<>>, <<" ", "7", " ", ",", "8">>, AddrA)
(* X-Forwarded-For: 7 *)
ReqForwardedOne == HeaderRequest(<<>>, <<"7">>, AddrB)
(* X-Forwarded-For: , 8 *)
ReqForwardedEmptyFirst == HeaderRequest(<<>>, <<",", " ", "8">>, AddrA)
(* no header; the peers a:1, [::1]:8 and a (no port) *)
ReqPeer == HeaderRequest(<<>>, <<>>, AddrA)
ReqPeerV6 ==
    HeaderRequest(<<>>, <<>>, <<"[", ":", ":", "1", "]", ":", "8">>)
ReqPeerNoPort == HeaderRequest(<<>>, <<>>, <<"a">>)
(* X-Real-IP: a from the peer b:1 *)
ReqRealA == HeaderRequest(<<"a">>, <<>>, AddrB)

KeyRequests ==
    { ReqRealAndForwarded, ReqForwardedList, ReqForwardedOne,
      ReqForwardedEmptyFirst, ReqPeer, ReqPeerV6, ReqPeerNoPort, ReqRealA }

Requests ==
    { Request("GET", PathFile, AddrA),
      Request("GET", PathFile, AddrB),
      Request("POST", PathFile, AddrA),
      Request("GET", PathShort, AddrA),
      Request("GET", PathHidden, AddrA) }

(* what the upstream answers to a token request, a quota query, a fetch *)
MintReplies == {"ok", "jwt_error", "bad_status"}

QuotaFailed == [ok |-> FALSE, limit |-> 0, resetIn |-> 0]
QuotaHourly == [ok |-> TRUE, limit |-> 12, resetIn |-> Hour]
QuotaTight == [ok |-> TRUE, limit |-> 3, resetIn |-> 3 * Second]
QuotaReplies == {QuotaFailed, QuotaHourly, QuotaTight}

(* a quota of 2 whose reset time lies a second before the local clock *)
QuotaPast == [ok |-> TRUE, limit |-> 2, resetIn |-> 0 - Second]

FetchReplies ==
    { [ok |-> FALSE, content |-> "", contentType |-> ""],
      [ok |-> TRUE, content |-> "bytes", contentType |-> "text/plain"] }

(* the file the upstream holds, "hi", and the body of its error page, "404" *)
FileBytes == <<104, 105>>
ErrorPage == <<52, 48, 52>>

(* the file in base64 as the contents API sends it, and a payload that is   *)
(* not base64                                                               *)
InlineFile == <<"a", "G", "k", "=", "\n">>
InlineBroken == <<"a", "G", "*", "=">>

(* fileData.Size > 1024*1024 *)
DownloadThreshold == 1024 * 1024

(* what the upstream answers to the metadata query: a transport failure, a  *)
(* status, a body that is JSON or not, and the fields of the JSON           *)
MetaReply(transport, status, json, size, content) ==
    [transport |-> transport, status |-> status, json |-> json,
     size |-> size, content |-> content, name |-> <<"f">>]

MetaReplies ==
    { MetaReply("error", 0, FALSE, 0, <<>>),
      MetaReply("ok", StatusNotFound, TRUE, 0, <<>>),
      MetaReply("ok", StatusOK, FALSE, 0, <<>>),
      MetaReply("ok", StatusOK, TRUE, 2, InlineFile),
      MetaReply("ok", StatusOK, TRUE, 2, InlineBroken),
      MetaReply("ok", StatusOK, TRUE, DownloadThreshold, InlineFile),
      MetaReply("ok", StatusOK, TRUE, DownloadThreshold + 1, <<>>) }

(* what the upstream answers to the download: a transport failure, or a     *)
(* status and a body that can be read to its end or not                     *)
DownloadReplies ==
    { [transport |-> "error", status |-> 0, readable |-> FALSE, body |-> <<>>],
      [transport |-> "ok", status |-> StatusOK, readable |-> TRUE,
       body |-> FileBytes],
      [transport |-> "ok", status |-> StatusOK, readable |-> FALSE,
       body |-> <<>>],
      [transport |-> "ok", status |-> StatusNotFound, readable |-> TRUE,
       body |-> ErrorPage] }

(* the time a minted token is served from the cache *)
Validity == TokenLifetime - SafetyMargin

-----------------------------------------------------------------------------
(* The per-request record of a serving goroutine.  trace is the list of the *)
(* pipeline steps the request has run, each with whether it passed; get is  *)
(* the bookkeeping of its call of getInstallationToken while it is inside.  *)

IdleTask ==
    [pc |-> "idle", req |-> Nil, lim |-> 0, token |-> 0, status |-> 0,
     body |-> Nil, reply |-> Nil, trace |-> <<>>, get |-> Nil]

Ran(rec, step, passed) == [rec EXCEPT !.trace = Append(@, <<step, passed>>)]

(* http.Error(w, ..., code); return *)
Reject(rec, code) == [rec EXCEPT !.pc = "done", !.status = code]

InGet(rec) == rec.pc \in {"getToken", "mint"}

-----------------------------------------------------------------------------
(* limits.go *)

(* a key derivation that looks at X-Forwarded-For before X-Real-IP *)
getClientIPForwardedFirst(r) ==
    IF r.forwardedFor # <<>>
    THEN TrimSpace(Split(r.forwardedFor, ",")[1])
    ELSE IF r.realIP # <<>> THEN r.realIP
    ELSE LET pos == LastIndex(r.remoteAddr, ":")
         IN  IF pos = 0 THEN r.remoteAddr
             ELSE SubSeq(r.remoteAddr, 1, pos - 1)

(* getClientIP: X-Real-IP, else the first X-Forwarded-For element, else the *)
(* peer address up to its last colon                                        *)
getClientIP(r) ==
    IF r.realIP # <<>> THEN r.realIP
    ELSE IF r.forwardedFor # <<>>
         THEN TrimSpace(Split(r.forwardedFor, ",")[1])
    ELSE LET pos == LastIndex(r.remoteAddr, ":")
         IN  IF pos = 0 THEN r.remoteAddr
             ELSE SubSeq(r.remoteAddr, 1, pos - 1)

(* a gate that ignores what the global limiter answers *)
GlobalAllowIgnored(g) == [ok |-> TRUE, lim |-> Allow(g).lim]

(* a gate that asks the global limiter and takes no token from it *)
GlobalPeek(g) == [ok |-> Allow(g).ok, lim |-> g]

(* globalLimiter.Allow() *)
GlobalAllow(g) == Allow(g)

(* a client limiter with the burst of 10 of the comment above its creation *)
NewClientLimiterBurst10 == NewLimiter(ClientRate, ClientBurst + 2)

(* rate.NewLimiter(rate.Every(ClientRate), ClientBurst) *)
NewClientLimiter == NewLimiter(ClientRate, ClientBurst)

(* a lookup that registers a new limiter on every call *)
getClientLimiterFresh(ip, heap, registry, t) ==
    [lim |-> Len(heap) + 1,
     heap |-> Append(heap, NewClientLimiter),
     registry |-> [k \in DOMAIN registry \cup {ip} |->
                      IF k = ip THEN [limiter |-> Len(heap) + 1, lastSeen |-> t]
                      ELSE registry[k]]]

(* getClientLimiter, under limiterMutex: the limiter of a known key, with   *)
(* lastSeen refreshed, or a new limiter registered for an unseen key        *)
getClientLimiter(ip, heap, registry, t) ==
    IF ip \in DOMAIN registry
    THEN [lim |-> registry[ip].limiter,
          heap |-> heap,
          registry |-> [registry EXCEPT ![ip].lastSeen = t]]
    ELSE [lim |-> Len(heap) + 1,
          heap |-> Append(heap, NewClientLimiter),
          registry |-> (ip :> [limiter |-> Len(heap) + 1, lastSeen |-> t])
                           @@ registry]

(* a sweep that also drops the entries that are exactly duration old *)
deleteStaleLimitersEager(registry, t, duration) ==
    [ip \in {k \in DOMAIN registry : t - registry[k].lastSeen < duration}
        |-> registry[ip]]

(* deleteStaleLimiters, under limiterMutex: every entry with                *)
(* time.Since(l.lastSeen) > duration is deleted from the map                *)
deleteStaleLimiters(registry, t, duration) ==
    [ip \in {k \in DOMAIN registry : ~(t - registry[k].lastSeen > duration)}
        |-> registry[ip]]

(* the division of Go's integers, which truncates toward zero *)
Quot(a, b) == IF a >= 0 THEN a \div b ELSE 0 - ((0 - a) \div b)

(* rate.Every(interval): one token per interval; for an interval that is    *)
(* not positive the rate is rate.Inf, written here as an interval of 0: a   *)
(* token takes no time, and Allow admits every call                         *)
Every(interval) == IF interval <= 0 THEN 0 ELSE interval

(* initGlobalLimiter: rate.NewLimiter(rate.Every(duration/limit), limit) *)
initGlobalLimiter(reply) ==
    NewLimiter(Every(Quot(reply.resetIn, reply.limit)), reply.limit)

-----------------------------------------------------------------------------
(* github.go: the token cache *)

(* a mutex that never blocks *)
CanLockAlways(mutex) == TRUE

(* tokenMutex.Lock() succeeds only on an unlocked mutex *)
CanLock(mutex) == ~mutex

(* a cache whose token is never taken as valid *)
CacheNeverValid(t) == FALSE

(* time.Now().Before(installationTokenExpiry) *)
CacheValid(t) == t < installationTokenExpiry

(* GenerateJWT, then GetInstallationToken: the token of the reply and       *)
(* time.Now().Add(time.Hour) as its expiry, or an error                     *)
GetInstallationToken(reply, serial, t) ==
    IF reply = "ok"
    THEN [err |-> FALSE, token |-> serial, expiry |-> t + TokenLifetime]
    ELSE [err |-> TRUE, token |-> 0, expiry |-> 0]

(* the upstream expiry stored as it is *)
EffectiveExpiryNoMargin(expiry) == expiry

(* installationTokenExpiry = expiry.Add(-(3 * time.Minute)) *)
EffectiveExpiry(expiry) == expiry - SafetyMargin

(* a refresh that stores the token and leaves the expiry as it was *)
RefreshedTokenOnly(cache, m) ==
    IF m.err THEN cache ELSE [token |-> m.token, expiry |-> cache.expiry]

(* a refresh that empties the cache when the Mint fails *)
RefreshedClearing(cache, m) ==
    IF m.err THEN [token |-> 0, expiry |-> 0]
    ELSE [token |-> m.token, expiry |-> m.expiry - SafetyMargin]

(* the cache after a refresh attempt: both fields assigned on success, the  *)
(* early returns on error assign nothing                                    *)
Refreshed(cache, m) ==
    IF m.err THEN cache
    ELSE [token |-> m.token, expiry |-> EffectiveExpiry(m.expiry)]

Cache == [token |-> installationToken, expiry |-> installationTokenExpiry]

-----------------------------------------------------------------------------
(* github.go: GetFileContent *)

B64Alphabet ==
    <<"A", "B", "C", "D", "E", "F", "G", "H", "I", "J", "K", "L", "M",
      "N", "O", "P", "Q", "R", "S", "T", "U", "V", "W", "X", "Y", "Z",
      "a", "b", "c", "d", "e", "f", "g", "h", "i", "j", "k", "l", "m",
      "n", "o", "p", "q", "r", "s", "t", "u", "v", "w", "x", "y", "z",
      "0", "1", "2", "3", "4", "5", "6", "7", "8", "9", "+", "/">>

(* the 6-bit value of a base64 character, -1 for any other character *)
B64Value(c) ==
    IF \E i \in DOMAIN B64Alphabet : B64Alphabet[i] = c
    THEN (CHOOSE i \in DOMAIN B64Alphabet : B64Alphabet[i] = c) - 1
    ELSE -1

IsNewline(c) == c \in {"\n", "\r"}

(* one quantum of four characters: three bytes, or two before one "=", or   *)
(* one before two "=", the padding allowed in the last quantum only         *)
DecodeQuantum(q, last) ==
    LET v(i) == B64Value(q[i])
        pad == IF q[4] # "=" THEN 0 ELSE IF q[3] # "=" THEN 1 ELSE 2
        bits == v(1) * 262144 + v(2) * 4096
                   + (IF pad < 2 THEN v(3) * 64 ELSE 0)
                   + (IF pad < 1 THEN v(4) ELSE 0)
        bytes == <<bits \div 65536, (bits \div 256) % 256, bits % 256>>
    IN  IF \/ v(1) < 0 \/ v(2) < 0
           \/ pad < 2 /\ v(3) < 0
           \/ pad < 1 /\ v(4) < 0
           \/ pad > 0 /\ ~last
        THEN [err |-> TRUE, bytes |-> <<>>]
        ELSE [err |-> FALSE, bytes |-> SubSeq(bytes, 1, 3 - pad)]

RECURSIVE DecodeQuanta(_)
DecodeQuanta(s) ==
    IF s = <<>> THEN [err |-> FALSE, bytes |-> <<>>]
    ELSE IF Len(s) < 4 THEN [err |-> TRUE, bytes |-> <<>>]
    ELSE LET head == DecodeQuantum(SubSeq(s, 1, 4), Len(s) = 4)
             rest == DecodeQuanta(SubSeq(s, 5, Len(s)))
         IN  IF head.err \/ rest.err THEN [err |-> TRUE, bytes |-> <<>>]
             ELSE [err |-> FALSE, bytes |-> head.bytes \o rest.bytes]

(* base64.StdEncoding.DecodeString: line breaks are skipped *)
DecodeString(s) == DecodeQuanta(SelectSeq(s, LAMBDA c : ~IsNewline(c)))

(* mime.TypeByExtension(filepath.Ext(name)), else mimetype.Detect(content)  *)
ContentType(name, content) ==
    IF \E i \in DOMAIN name : name[i] = "." /\ SubSeq(name, i, Len(name)) = <<".", "t", "x", "t">>
    THEN "text/plain; charset=utf-8"
    ELSE IF \A i \in DOMAIN content : content[i] >= 32 /\ content[i] < 127
    THEN "text/plain; charset=utf-8"
    ELSE "application/octet-stream"

FetchError(meta, dl, downloads) ==
    [ok |-> FALSE, content |-> "", contentType |-> "", meta |-> meta,
     dl |-> dl, downloads |-> downloads]

FetchResult(content, meta, dl, downloads) ==
    [ok |-> TRUE, content |-> content,
     contentType |-> ContentType(meta.name, content), meta |-> meta,
     dl |-> dl, downloads |-> downloads]

(* GetFileContent, given what the upstream answers to the metadata query    *)
(* and what it answers to the download, should one be made                  *)
GetFileContent(meta, dl) ==
    IF meta.transport # "ok" THEN FetchError(meta, Nil, 0)
    ELSE IF meta.status # StatusOK THEN FetchError(meta, Nil, 0)
    ELSE IF ~meta.json THEN FetchError(meta, Nil, 0)
    ELSE IF meta.size > DownloadThreshold
    THEN IF dl.transport # "ok" THEN FetchError(meta, dl, 1)
         ELSE IF ~dl.readable THEN FetchError(meta, dl, 1)
         ELSE FetchResult(dl.body, meta, dl, 1)
    ELSE LET decoded == DecodeString(meta.content)
         IN  IF decoded.err THEN FetchError(meta, Nil, 0)
             ELSE FetchResult(decoded.bytes, meta, Nil, 0)

-----------------------------------------------------------------------------
(* handlers.go: the fragments of requestHandler, in source order *)

(* a handler that does not look at the context *)
LivenessIgnored(rec, cancelled) ==
    [Ran(rec, "liveness", TRUE) EXCEPT !.pc = "global"]

(* ctx.Err() != nil: 503 *)
Liveness(rec, cancelled) ==
    IF cancelled
    THEN Reject(Ran(rec, "liveness", FALSE), StatusServiceUnavailable)
    ELSE [Ran(rec, "liveness", TRUE) EXCEPT !.pc = "global"]

(* checkLimits returned an error: 429 *)
LimitsFailed(rec) ==
    Reject(Ran(rec, "checkLimits", FALSE), StatusTooManyRequests)

(* a handler without the method check *)
LimitsPassedAnyMethod(rec) ==
    [Ran(rec, "checkLimits", TRUE) EXCEPT !.pc = "getToken"]

(* checkLimits returned nil; r.Method != GET: 405; else getInstallationToken *)
LimitsPassed(rec) ==
    LET r == Ran(rec, "checkLimits", TRUE)
    IN  IF r.req.method # "GET"
        THEN Reject(Ran(r, "method", FALSE), StatusMethodNotAllowed)
        ELSE [Ran(r, "method", TRUE) EXCEPT !.pc = "getToken"]

(* getInstallationToken returned an error: 500 *)
TokenFailed(rec) ==
    Reject(Ran(rec, "getInstallationToken", FALSE), StatusInternalServerError)

(* any element of the file path starts with a dot *)
Hidden(filePath) ==
    \E i \in 1..Len(Split(filePath, "/")) :
        LET elem == Split(filePath, "/")[i]
        IN  Len(elem) > 0 /\ elem[1] = "."

(* getInstallationToken returned a token: SplitN(path, "/", 4) must give 4  *)
(* parts (400), no element of the file path may start with a dot (403),     *)
(* then GetFileContent is called                                            *)
TokenPassed(rec, token) ==
    LET r == [Ran(rec, "getInstallationToken", TRUE) EXCEPT !.token = token]
        parts == SplitN(r.req.path, "/", 4)
    IN  IF Len(parts) < 4
        THEN Reject(Ran(r, "parse", FALSE), StatusBadRequest)
        ELSE IF Hidden(parts[4])
        THEN Reject(Ran(Ran(r, "parse", TRUE), "safety", FALSE), StatusForbidden)
        ELSE [Ran(Ran(r, "parse", TRUE), "safety", TRUE) EXCEPT !.pc = "fetch"]

(* GetFileContent returned: 404 on error, else the bytes with their type *)
FetchReturned(rec, reply) ==
    IF ~reply.ok
    THEN [Reject(Ran(rec, "GetFileContent", FALSE), StatusNotFound)
              EXCEPT !.reply = reply]
    ELSE [Ran(rec, "GetFileContent", TRUE) EXCEPT
              !.pc = "done", !.status = StatusOK, !.reply = reply,
              !.body = [content |-> reply.content,
                        contentType |-> reply.contentType]]

-----------------------------------------------------------------------------
(* Bookkeeping of one call of getInstallationToken, kept while the call is *)
(* inside: whether the cache was invalid when it was issued, when it was    *)
(* issued, how many Mint calls were in flight or started since (2 stands    *)
(* for two or more), whether one of them failed, and what the calls that    *)
(* returned meanwhile returned (0 stands for an error).                     *)

GetIssued ==
    [invalid |-> ~CacheValid(now), since |-> now,
     mints |-> IF tokenMutex THEN 1 ELSE 0, failed |-> FALSE, peers |-> {}]

(* every call inside sees the Mint that starts *)
SeeMint(rec) ==
    IF InGet(rec) THEN [rec EXCEPT !.get.mints = Min(2, @ + 1)] ELSE rec

(* every call inside sees what another call returns *)
SeeReturn(rec, result) ==
    IF InGet(rec)
    THEN [rec EXCEPT !.get.peers = @ \cup {result},
                     !.get.failed = @ \/ result = 0]
    ELSE rec

-----------------------------------------------------------------------------
(* The state machine *)

Init ==
    /\ now = 0
    /\ clockSteps = 0
    /\ ctxDone = FALSE
    /\ mainPc = "start"
    /\ installationToken = 0
    /\ installationTokenExpiry = 0
    /\ tokenMutex = FALSE
    /\ issued = <<>>
    /\ globalLimiter = Nil
    /\ limiters = <<>>
    /\ clientLimiters = <<>>
    /\ task = [t \in Tasks |-> IdleTask]
    /\ limiterMutex = FALSE
    /\ cleanup = [pc |-> "off", timer |-> 0]
    /\ shutdownAt = 0

(* main: getInstallationToken() is entered, the cache is empty, Mint starts *)
MainGetToken ==
    /\ mainPc = "start"
    /\ CanLock(tokenMutex)
    /\ ~CacheValid(now)
    /\ tokenMutex' = TRUE
    /\ mainPc' = "mint"
    /\ UNCHANGED <<now, clockSteps, ctxDone, installationToken,
                   installationTokenExpiry, issued, globalLimiter, limiters,
                   clientLimiters, task>>
    /\ UNCHANGED <<limiterMutex, cleanup, shutdownAt>>

(* main: the Mint returns; log.Fatalf on error *)
MainMintReturn(reply) ==
    /\ mainPc = "mint"
    /\ LET m == GetInstallationToken(reply, Len(issued) + 1, now)
           c == Refreshed(Cache, m)
       IN  /\ installationToken' = c.token
           /\ installationTokenExpiry' = c.expiry
           /\ issued' = IF m.err THEN issued ELSE Append(issued, m.expiry)
           /\ mainPc' = IF m.err THEN "exited" ELSE "quota"
    /\ tokenMutex' = FALSE
    /\ UNCHANGED <<now, clockSteps, ctxDone, globalLimiter, limiters,
                   clientLimiters, task>>
    /\ UNCHANGED <<limiterMutex, cleanup, shutdownAt>>

(* main: initGlobalLimiter(tok); log.Fatalf on error; then the server and   *)
(* the cleanup goroutine are started                                        *)
MainQuotaReturn(reply) ==
    /\ mainPc = "quota"
    /\ IF reply.ok
       THEN /\ globalLimiter' = initGlobalLimiter(reply)
            /\ mainPc' = "serving"
            /\ cleanup' = [pc |-> "select", timer |-> now + IdleTTL]
       ELSE /\ mainPc' = "exited"
            /\ UNCHANGED <<globalLimiter, cleanup>>
    /\ UNCHANGED <<now, clockSteps, ctxDone, installationToken,
                   installationTokenExpiry, tokenMutex, issued, limiters,
                   clientLimiters, task, limiterMutex, shutdownAt>>

(* SIGINT or SIGTERM cancels ctx *)
Signal ==
    /\ mainPc = "serving"
    /\ ~ctxDone
    /\ ctxDone' = TRUE
    /\ UNCHANGED <<now, clockSteps, mainPc, installationToken,
                   installationTokenExpiry, tokenMutex, issued, globalLimiter,
                   limiters, clientLimiters, task>>
    /\ UNCHANGED <<limiterMutex, cleanup, shutdownAt>>

(* time passes: d ticks *)
Advance(d) ==
    /\ mainPc = "serving"
    /\ clockSteps < MaxClockSteps
    /\ now' = now + d
    /\ clockSteps' = clockSteps + 1
    /\ globalLimiter' = Refill(globalLimiter, d)
    /\ limiters' = [i \in DOMAIN limiters |-> Refill(limiters[i], d)]
    /\ UNCHANGED <<ctxDone, mainPc, installationToken,
                   installationTokenExpiry, tokenMutex, issued,
                   clientLimiters, task>>
    /\ UNCHANGED <<limiterMutex, cleanup, shutdownAt>>

(* requestHandler is entered with request r: the liveness check *)
Arrive(t, r) ==
    /\ mainPc = "serving"
    /\ task[t].pc \in {"idle", "done"}
    /\ task' = [task EXCEPT ![t] = Liveness([IdleTask EXCEPT !.req = r], ctxDone)]
    /\ UNCHANGED <<now, clockSteps, ctxDone, mainPc, installationToken,
                   installationTokenExpiry, tokenMutex, issued, globalLimiter,
                   limiters, clientLimiters>>
    /\ UNCHANGED <<limiterMutex, cleanup, shutdownAt>>

(* a checkLimits that looks the client's limiter up before it asks the     *)
(* global limiter                                                           *)
CheckGlobalAfterLookup(t) ==
    /\ task[t].pc = "global"
    /\ LET res == GlobalAllow(globalLimiter)
           got == getClientLimiter(getClientIP(task[t].req), limiters,
                                   clientLimiters, now)
       IN  /\ globalLimiter' = res.lim
           /\ limiters' = got.heap
           /\ clientLimiters' = got.registry
           /\ task' = [task EXCEPT ![t] =
                         IF res.ok THEN [@ EXCEPT !.pc = "lookup"]
                         ELSE LimitsFailed(@)]
    /\ UNCHANGED <<now, clockSteps, ctxDone, mainPc, installationToken,
                   installationTokenExpiry, tokenMutex, issued>>
    /\ UNCHANGED <<limiterMutex, cleanup, shutdownAt>>

(* checkLimits: globalLimiter.Allow() *)
CheckGlobal(t) ==
    /\ task[t].pc = "global"
    /\ LET res == GlobalAllow(globalLimiter)
       IN  /\ globalLimiter' = res.lim
           /\ task' = [task EXCEPT ![t] =
                         IF res.ok THEN [@ EXCEPT !.pc = "lookup"]
                         ELSE LimitsFailed(@)]
    /\ UNCHANGED <<now, clockSteps, ctxDone, mainPc, installationToken,
                   installationTokenExpiry, tokenMutex, issued, limiters,
                   clientLimiters>>
    /\ UNCHANGED <<limiterMutex, cleanup, shutdownAt>>

(* checkLimits: getClientLimiter(getClientIP(r)) *)
LookupClient(t) ==
    /\ task[t].pc = "lookup"
    /\ CanLock(limiterMutex)
    /\ LET got == getClientLimiter(getClientIP(task[t].req), limiters,
                                   clientLimiters, now)
       IN  /\ limiters' = got.heap
           /\ clientLimiters' = got.registry
           /\ task' = [task EXCEPT ![t] = [@ EXCEPT !.pc = "allow",
                                                    !.lim = got.lim]]
    /\ UNCHANGED <<now, clockSteps, ctxDone, mainPc, installationToken,
                   installationTokenExpiry, tokenMutex, issued, globalLimiter>>
    /\ UNCHANGED <<limiterMutex, cleanup, shutdownAt>>

(* checkLimits: clientLimiter.Allow(); then the method check *)
CheckClient(t) ==
    /\ task[t].pc = "allow"
    /\ LET res == Allow(limiters[task[t].lim])
           rec == IF res.ok THEN LimitsPassed(task[t])
                  ELSE LimitsFailed(task[t])
       IN  /\ limiters' = [limiters EXCEPT ![task[t].lim] = res.lim]
           /\ task' = [task EXCEPT ![t] =
                         IF rec.pc = "getToken"
                         THEN [rec EXCEPT !.get = GetIssued]
                         ELSE rec]
    /\ UNCHANGED <<now, clockSteps, ctxDone, mainPc, installationToken,
                   installationTokenExpiry, tokenMutex, issued, globalLimiter,
                   clientLimiters>>
    /\ UNCHANGED <<limiterMutex, cleanup, shutdownAt>>

(* getInstallationToken: the lock is taken; a valid cached token is         *)
(* returned at once, else the Mint starts with the lock held                *)
TokenGet(t) ==
    /\ task[t].pc = "getToken"
    /\ CanLock(tokenMutex)
    /\ IF CacheValid(now)
       THEN /\ task' = [u \in Tasks |->
                          IF u = t
                          THEN [TokenPassed(task[t], installationToken)
                                    EXCEPT !.get = Nil]
                          ELSE SeeReturn(task[u], installationToken)]
            /\ UNCHANGED tokenMutex
       ELSE /\ task' = [u \in Tasks |->
                          IF u = t
                          THEN [SeeMint(task[t]) EXCEPT !.pc = "mint"]
                          ELSE SeeMint(task[u])]
            /\ tokenMutex' = TRUE
    /\ UNCHANGED <<now, clockSteps, ctxDone, mainPc, installationToken,
                   installationTokenExpiry, issued, globalLimiter, limiters,
                   clientLimiters>>
    /\ UNCHANGED <<limiterMutex, cleanup, shutdownAt>>

(* a handler that ends the process, as main does, when its Mint fails *)
MintReturnFatal(t, reply) ==
    /\ task[t].pc = "mint"
    /\ LET m == GetInstallationToken(reply, Len(issued) + 1, now)
           c == Refreshed(Cache, m)
       IN  /\ installationToken' = c.token
           /\ installationTokenExpiry' = c.expiry
           /\ issued' = IF m.err THEN issued ELSE Append(issued, m.expiry)
           /\ mainPc' = IF m.err THEN "exited" ELSE mainPc
           /\ task' = [u \in Tasks |->
                         IF u = t
                         THEN [(IF m.err THEN TokenFailed(task[t])
                                ELSE TokenPassed(task[t], c.token))
                                   EXCEPT !.get = Nil]
                         ELSE SeeReturn(task[u], IF m.err THEN 0 ELSE c.token)]
    /\ tokenMutex' = FALSE
    /\ UNCHANGED <<now, clockSteps, ctxDone, globalLimiter, limiters,
                   clientLimiters>>
    /\ UNCHANGED <<limiterMutex, cleanup, shutdownAt>>

(* getInstallationToken: the Mint returns, the lock is released *)
MintReturn(t, reply) ==
    /\ task[t].pc = "mint"
    /\ LET m == GetInstallationToken(reply, Len(issued) + 1, now)
           c == Refreshed(Cache, m)
       IN  /\ installationToken' = c.token
           /\ installationTokenExpiry' = c.expiry
           /\ issued' = IF m.err THEN issued ELSE Append(issued, m.expiry)
           /\ task' = [u \in Tasks |->
                         IF u = t
                         THEN [(IF m.err THEN TokenFailed(task[t])
                                ELSE TokenPassed(task[t], c.token))
                                   EXCEPT !.get = Nil]
                         ELSE SeeReturn(task[u], IF m.err THEN 0 ELSE c.token)]
    /\ tokenMutex' = FALSE
    /\ UNCHANGED <<now, clockSteps, ctxDone, mainPc, globalLimiter, limiters,
                   clientLimiters>>
    /\ UNCHANGED <<limiterMutex, cleanup, shutdownAt>>

(* GetFileContent returns *)
FetchReturn(t, reply) ==
    /\ task[t].pc = "fetch"
    /\ task' = [task EXCEPT ![t] = FetchReturned(@, reply)]
    /\ UNCHANGED <<now, clockSteps, ctxDone, mainPc, installationToken,
                   installationTokenExpiry, tokenMutex, issued, globalLimiter,
                   limiters, clientLimiters>>
    /\ UNCHANGED <<limiterMutex, cleanup, shutdownAt>>

(* time passes: d ticks, one clock step more than Advance allows *)
Elapse(d) ==
    /\ mainPc \in {"serving", "shutdown"}
    /\ clockSteps < MaxClockSteps + 1
    /\ now' = now + d
    /\ clockSteps' = clockSteps + 1
    /\ globalLimiter' = Refill(globalLimiter, d)
    /\ limiters' = [i \in DOMAIN limiters |-> Refill(limiters[i], d)]
    /\ UNCHANGED <<ctxDone, mainPc, installationToken,
                   installationTokenExpiry, tokenMutex, issued,
                   clientLimiters, task, limiterMutex, cleanup, shutdownAt>>

(* cleanupStaleLimiters: the timer of the select has fired; the goroutine   *)
(* locks limiterMutex and deletes the stale entries                         *)
CleanupSweep ==
    /\ cleanup.pc = "select"
    /\ now >= cleanup.timer
    /\ CanLock(limiterMutex)
    /\ limiterMutex' = TRUE
    /\ clientLimiters' = deleteStaleLimiters(clientLimiters, now, IdleTTL)
    /\ cleanup' = [cleanup EXCEPT !.pc = "sweep"]
    /\ UNCHANGED <<now, clockSteps, ctxDone, mainPc, installationToken,
                   installationTokenExpiry, tokenMutex, issued, globalLimiter,
                   limiters, task, shutdownAt>>

(* a sweep that goes back to its select with limiterMutex still locked *)
CleanupUnlockDeferred ==
    /\ cleanup.pc = "sweep"
    /\ cleanup' = [pc |-> "select", timer |-> now + IdleTTL]
    /\ UNCHANGED <<now, clockSteps, ctxDone, mainPc, installationToken,
                   installationTokenExpiry, tokenMutex, issued, globalLimiter,
                   limiters, clientLimiters, task, limiterMutex, shutdownAt>>

(* cleanupStaleLimiters: limiterMutex.Unlock(), and the next select starts  *)
(* a new timer                                                              *)
CleanupUnlock ==
    /\ cleanup.pc = "sweep"
    /\ limiterMutex' = FALSE
    /\ cleanup' = [pc |-> "select", timer |-> now + IdleTTL]
    /\ UNCHANGED <<now, clockSteps, ctxDone, mainPc, installationToken,
                   installationTokenExpiry, tokenMutex, issued, globalLimiter,
                   limiters, clientLimiters, task, shutdownAt>>

(* cleanupStaleLimiters: the select takes <-ctx.Done() and returns *)
CleanupReturn ==
    /\ cleanup.pc = "select"
    /\ ctxDone
    /\ cleanup' = [cleanup EXCEPT !.pc = "returned"]
    /\ UNCHANGED <<now, clockSteps, ctxDone, mainPc, installationToken,
                   installationTokenExpiry, tokenMutex, issued, globalLimiter,
                   limiters, clientLimiters, task, limiterMutex, shutdownAt>>

(* a request is in flight: its handler has not returned *)
InFlight(rec) == rec.pc \notin {"idle", "done", "killed"}

(* main: <-ctx.Done() returns; server.Shutdown(shutdownCtx) is called with  *)
(* a deadline of 5 seconds and closes the listeners                         *)
MainShutdown ==
    /\ mainPc = "serving"
    /\ ctxDone
    /\ mainPc' = "shutdown"
    /\ shutdownAt' = now
    /\ UNCHANGED <<now, clockSteps, ctxDone, installationToken,
                   installationTokenExpiry, tokenMutex, issued, globalLimiter,
                   limiters, clientLimiters, task, limiterMutex, cleanup>>

(* main: the timer of shutdownCtx fires 5 seconds after server.Shutdown    *)
(* was called, however far the clock of the run has gone                    *)
GraceExpires ==
    /\ mainPc = "shutdown"
    /\ now < shutdownAt + Grace
    /\ now' = shutdownAt + Grace
    /\ globalLimiter' = Refill(globalLimiter, shutdownAt + Grace - now)
    /\ limiters' = [i \in DOMAIN limiters |->
                      Refill(limiters[i], shutdownAt + Grace - now)]
    /\ UNCHANGED <<clockSteps, ctxDone, mainPc, installationToken,
                   installationTokenExpiry, tokenMutex, issued,
                   clientLimiters, task, limiterMutex, cleanup, shutdownAt>>

(* main: server.Shutdown returns, with nil once no request is in flight or  *)
(* with an error once the deadline has passed (log.Fatalf); either way the  *)
(* process ends, and with it every goroutine that is still running          *)
MainExit ==
    /\ mainPc = "shutdown"
    /\ \/ \A t \in Tasks : ~InFlight(task[t])
       \/ now >= shutdownAt + Grace
    /\ mainPc' = "exited"
    /\ task' = [t \in Tasks |->
                  IF InFlight(task[t]) THEN [task[t] EXCEPT !.pc = "killed"]
                  ELSE task[t]]
    /\ cleanup' = IF cleanup.pc = "returned" THEN cleanup
                  ELSE [cleanup EXCEPT !.pc = "killed"]
    /\ UNCHANGED <<now, clockSteps, ctxDone, installationToken,
                   installationTokenExpiry, tokenMutex, issued, globalLimiter,
                   limiters, clientLimiters, limiterMutex, shutdownAt>>

(* One step of the program with the goroutines T serving requests drawn    *)
(* from R, the clock jumping by a duration of D, and the upstream answering *)
(* the quota query with a reply of Q.                                       *)
Step(T, R, D, Q) ==
    \/ MainGetToken
    \/ \E reply \in MintReplies : MainMintReturn(reply)
    \/ \E reply \in Q : MainQuotaReturn(reply)
    \/ Signal
    \/ \E d \in D : Advance(d)
    \/ \E t \in T, r \in R : Arrive(t, r)
    \/ \E t \in T : CheckGlobal(t)
    \/ \E t \in T : LookupClient(t)
    \/ \E t \in T : CheckClient(t)
    \/ \E t \in T : TokenGet(t)
    \/ \E t \in T, reply \in MintReplies : MintReturn(t, reply)
    \/ \E t \in T, reply \in FetchReplies : FetchReturn(t, reply)

(* The pipeline: one goroutine, every kind of request, a quota of 3; the   *)
(* clock jumps to the last tick of the validity window or to its end.       *)
NextPipeline ==
    Step({1}, Requests, {Validity - 1, Validity}, {QuotaFailed, QuotaTight})
SpecPipeline == Init /\ [][NextPipeline]_vars

(* The token cache: all goroutines serve the same valid GET request; the    *)
(* clock jumps by a validity window, so that the cached token expires.      *)
NextCache ==
    Step(Tasks, {Request("GET", PathFile, AddrA)}, {Validity},
         {QuotaFailed, QuotaTight})
SpecCache == Init /\ [][NextCache]_vars

(* The rate gate: one goroutine and one client, whose requests differ in    *)
(* method and path; a quota of 12, more than the client's burst; the clock  *)
(* moves by a tick, a second, or a validity window.                         *)
NextGate ==
    Step({1},
         {Request("POST", PathFile, AddrA), Request("GET", PathFile, AddrA),
          Request("GET", PathShort, AddrA)},
         {1, Second, Validity}, {QuotaFailed, QuotaHourly})
SpecGate == Init /\ [][NextGate]_vars

(* The paths: one goroutine serves GET requests of one client whose paths   *)
(* differ in their number of segments, in empty segments and in segments    *)
(* that start with a dot.                                                   *)
PathRequests ==
    {Request("GET", path, AddrA) :
        path \in {PathFile, PathShort, PathHidden, PathDeep, PathDeepHidden,
                  PathHiddenRepo, PathHiddenOwner, PathNoFile}}

NextPaths ==
    Step({1}, PathRequests, {Validity}, {QuotaFailed, QuotaTight})
SpecPaths == Init /\ [][NextPaths]_vars

(* The fetch: one goroutine serves the well-formed GET of two clients; the  *)
(* upstream answers the metadata query and the download in every way listed *)
(* above.                                                                   *)
NextFetch ==
    \/ MainGetToken
    \/ \E reply \in MintReplies : MainMintReturn(reply)
    \/ \E reply \in {QuotaFailed, QuotaHourly} : MainQuotaReturn(reply)
    \/ \E addr \in {AddrA, AddrB} : Arrive(1, Request("GET", PathFile, addr))
    \/ CheckGlobal(1)
    \/ LookupClient(1)
    \/ CheckClient(1)
    \/ TokenGet(1)
    \/ \E meta \in MetaReplies, dl \in DownloadReplies :
          FetchReturn(1, GetFileContent(meta, dl))
SpecFetch == Init /\ [][NextFetch]_vars

(* The sweep: one goroutine serves POST requests of two clients, which end *)
(* after checkLimits; the clock moves twice, by half the idle TTL, the TTL  *)
(* or one and a half TTL; the cleanup goroutine sweeps when its timer has    *)
(* fired and returns when ctx is cancelled.                                  *)
SweepDurations == {IdleTTL \div 2, IdleTTL, (3 * IdleTTL) \div 2}

NextSweep ==
    \/ MainGetToken
    \/ \E reply \in MintReplies : MainMintReturn(reply)
    \/ \E reply \in {QuotaFailed, QuotaTight} : MainQuotaReturn(reply)
    \/ Signal
    \/ \E d \in SweepDurations : Elapse(d)
    \/ \E r \in {Request("POST", PathFile, AddrA),
                  Request("POST", PathFile, AddrB)} : Arrive(1, r)
    \/ CheckGlobal(1)
    \/ LookupClient(1)
    \/ CheckClient(1)
    \/ CleanupSweep
    \/ CleanupUnlock
    \/ CleanupReturn
SpecSweep == Init /\ [][NextSweep]_vars

(* The shutdown: two goroutines serve the same valid GET request; the      *)
(* signal arrives, main calls server.Shutdown and exits when no request is  *)
(* in flight or when the deadline of 5 seconds has passed. The main         *)
(* goroutine runs when it can, and the timer of the deadline fires.         *)
NextShutdown ==
    \/ MainGetToken
    \/ \E reply \in MintReplies : MainMintReturn(reply)
    \/ \E reply \in {QuotaFailed, QuotaTight} : MainQuotaReturn(reply)
    \/ Signal
    \/ \E d \in {Second, Grace} : Elapse(d)
    \/ \E t \in {1, 2} : Arrive(t, Request("GET", PathFile, AddrA))
    \/ \E t \in {1, 2} : CheckGlobal(t)
    \/ \E t \in {1, 2} : LookupClient(t)
    \/ \E t \in {1, 2} : CheckClient(t)
    \/ \E t \in {1, 2} : TokenGet(t)
    \/ \E t \in {1, 2}, reply \in FetchReplies : FetchReturn(t, reply)
    \/ MainShutdown
    \/ GraceExpires
    \/ MainExit
SpecShutdown ==
    /\ Init /\ [][NextShutdown]_vars
    /\ WF_vars(MainShutdown)
    /\ WF_vars(GraceExpires)
    /\ WF_vars(MainExit)

(* The quota: one goroutine serves the POST requests of two clients, whose  *)
(* buckets together hold more than the quota; the upstream answers the      *)
(* quota query with a reset time ahead of the local clock or behind it.     *)
NextQuota ==
    \/ MainGetToken
    \/ \E reply \in MintReplies : MainMintReturn(reply)
    \/ \E reply \in {QuotaFailed, QuotaTight, QuotaPast} :
          MainQuotaReturn(reply)
    \/ Signal
    \/ Advance(Second)
    \/ \E addr \in {AddrA, AddrB} :
          Arrive(1, Request("POST", PathFile, addr))
    \/ CheckGlobal(1)
    \/ LookupClient(1)
    \/ CheckClient(1)
SpecQuota == Init /\ [][NextQuota]_vars

(* The client keys: one goroutine serves POST requests that differ in their *)
(* X-Real-IP and X-Forwarded-For headers and in their peer address.         *)
NextKeys ==
    \/ MainGetToken
    \/ \E reply \in MintReplies : MainMintReturn(reply)
    \/ \E reply \in {QuotaFailed, QuotaTight} : MainQuotaReturn(reply)
    \/ \E r \in KeyRequests : Arrive(1, r)
    \/ CheckGlobal(1)
    \/ LookupClient(1)
    \/ CheckClient(1)
SpecKeys == Init /\ [][NextKeys]_vars

(* The registry under concurrency: all goroutines serve POST requests, two *)
(* of which give the key a in different ways and one another key; the       *)
(* quota of 12 exceeds a client's burst, and no time passes.                *)
NextRegistry ==
    \/ MainGetToken
    \/ \E reply \in MintReplies : MainMintReturn(reply)
    \/ \E reply \in {QuotaFailed, QuotaHourly} : MainQuotaReturn(reply)
    \/ \E t \in Tasks, r \in {ReqPeer, ReqRealA, ReqPeerV6} : Arrive(t, r)
    \/ \E t \in Tasks : CheckGlobal(t)
    \/ \E t \in Tasks : LookupClient(t)
    \/ \E t \in Tasks : CheckClient(t)
SpecRegistry == Init /\ [][NextRegistry]_vars

(* The eviction: two goroutines serve the POST requests of one client; the  *)
(* clock moves by more than the idle window at any point of a request, also *)
(* between its lookup of the limiter and its Allow, and the sweep runs when *)
(* its timer has fired.                                                     *)
NextEvict ==
    \/ MainGetToken
    \/ \E reply \in MintReplies : MainMintReturn(reply)
    \/ \E reply \in {QuotaFailed, QuotaHourly} : MainQuotaReturn(reply)
    \/ Elapse(IdleTTL + Second)
    \/ \E t \in {1, 2} : Arrive(t, ReqPeer)
    \/ \E t \in {1, 2} : CheckGlobal(t)
    \/ \E t \in {1, 2} : LookupClient(t)
    \/ \E t \in {1, 2} : CheckClient(t)
    \/ CleanupSweep
    \/ CleanupUnlock
SpecEvict == Init /\ [][NextEvict]_vars

(* The cancellation of the sweep: one goroutine serves the POST requests of *)
(* one client while the clock moves by the idle window. The Go scheduler    *)
(* runs a goroutine that can run, so the unlock of the sweep and the lookup *)
(* of a request, once they can be taken, are taken; the select of the sweep *)
(* chooses among its ready cases at random, so that a cancellation which    *)
(* is ready whenever the select is reached is taken at last.                *)
NextCancel ==
    \/ MainGetToken
    \/ \E reply \in MintReplies : MainMintReturn(reply)
    \/ \E reply \in {QuotaFailed, QuotaTight} : MainQuotaReturn(reply)
    \/ Signal
    \/ Elapse(IdleTTL)
    \/ Arrive(1, Request("POST", PathFile, AddrA))
    \/ CheckGlobal(1)
    \/ LookupClient(1)
    \/ CheckClient(1)
    \/ CleanupSweep
    \/ CleanupUnlock
    \/ CleanupReturn
SpecCancel ==
    /\ Init /\ [][NextCancel]_vars
    /\ WF_vars(CleanupUnlock)
    /\ WF_vars(LookupClient(1))
    /\ SF_vars(CleanupReturn)

-----------------------------------------------------------------------------
(* Properties of the request pipeline *)

PipelineOrder ==
    <<"liveness", "checkLimits", "method", "getInstallationToken", "parse",
      "safety", "GetFileContent">>

RejectionStatus ==
    <<StatusServiceUnavailable, StatusTooManyRequests, StatusMethodNotAllowed,
      StatusInternalServerError, StatusBadRequest, StatusForbidden,
      StatusNotFound>>

StepNames(rec) == [i \in DOMAIN rec.trace |-> rec.trace[i][1]]

Called(rec, step) == \E i \in DOMAIN rec.trace : rec.trace[i][1] = step

Failed(rec, step) == \E i \in DOMAIN rec.trace : rec.trace[i] = <<step, FALSE>>

(* what the steps that look only at the request must find *)
StepFacts(rec) ==
    \A i \in DOMAIN rec.trace :
        /\ rec.trace[i][1] = "method"
              => (rec.trace[i][2] <=> rec.req.method = "GET")
        /\ rec.trace[i][1] = "parse"
              => (rec.trace[i][2] <=> rec.req.path \in {PathFile, PathHidden})
        /\ rec.trace[i][1] = "safety"
              => (rec.trace[i][2] <=> rec.req.path = PathFile)

Ordered(rec) ==
    LET n == Len(rec.trace)
    IN  /\ n <= Len(PipelineOrder)
        /\ StepNames(rec) = SubSeq(PipelineOrder, 1, n)
        /\ \A i \in 1..(n - 1) : rec.trace[i][2]
        /\ StepFacts(rec)
        /\ IF rec.pc = "done"
           THEN /\ n >= 1
                /\ IF rec.trace[n][2]
                   THEN /\ n = Len(PipelineOrder)
                        /\ rec.status = StatusOK
                        /\ rec.reply \in FetchReplies /\ rec.reply.ok
                        /\ rec.body = [content |-> rec.reply.content,
                                       contentType |-> rec.reply.contentType]
                   ELSE /\ rec.status = RejectionStatus[n]
                        /\ rec.body = Nil
           ELSE /\ rec.status = 0
                /\ rec.body = Nil
                /\ \A i \in 1..n : rec.trace[i][2]

(* C1: every request runs the steps liveness, checkLimits, method,          *)
(* getInstallationToken, parse, safety, GetFileContent in this order, each  *)
(* at most once, nothing after the first step that fails; its one response  *)
(* is the status of that step (503, 429, 405, 500, 400, 403, 404), or 200   *)
(* with the fetched bytes and content type when all seven steps passed.     *)
C1_FirstFailingStepDecides == \A t \in Tasks : Ordered(task[t])

(* a GET with a malformed path is answered 500 because the Mint failed *)
C1_Witness ==
    \E t \in Tasks :
        /\ task[t].pc = "done"
        /\ task[t].req = Request("GET", PathShort, AddrA)
        /\ task[t].status = StatusInternalServerError
        /\ ~Called(task[t], "parse")

Tokens(b) == b.tokens \div b.every

Empty(b) == b.tokens < b.every

(* the step of goroutine t that consults a limiter which has no token *)
GateRejects(t) ==
    /\ task'[t] # task[t]
    /\ \/ task[t].pc = "global" /\ Empty(globalLimiter)
       \/ task[t].pc = "allow" /\ Empty(limiters[task[t].lim])

(* C2: when the global bucket or the client's bucket has no token, the      *)
(* request is answered 429 in that step, whatever its method and path, and  *)
(* it calls neither getInstallationToken nor GetFileContent.                *)
C2_RateLimitedIs429 ==
    [][\A t \in Tasks :
          GateRejects(t) =>
              /\ task'[t].pc = "done"
              /\ task'[t].status = StatusTooManyRequests
              /\ ~Called(task'[t], "getInstallationToken")
              /\ ~Called(task'[t], "GetFileContent")
              /\ task'[t].token = 0 /\ task'[t].get = Nil
              /\ UNCHANGED <<installationToken, installationTokenExpiry,
                             tokenMutex, issued>>]_vars

(* a GET with a malformed path is rejected by the client's empty bucket *)
C2_Witness ==
    \E t \in Tasks :
        /\ task[t].pc = "done"
        /\ task[t].status = StatusTooManyRequests
        /\ task[t].req = Request("GET", PathShort, AddrA)
        /\ task[t].lim # 0
        /\ Empty(limiters[task[t].lim])
        /\ ~Empty(globalLimiter)

-----------------------------------------------------------------------------
(* Properties of the token cache *)

(* the Mint calls (GenerateJWT + GetInstallationToken) that are in flight *)
MintsInFlight ==
    Cardinality({t \in Tasks : task[t].pc = "mint"})
        + (IF mainPc = "mint" THEN 1 ELSE 0)

CacheChanges ==
    \/ installationToken' # installationToken
    \/ installationTokenExpiry' # installationTokenExpiry

(* C3: at most one Mint is in flight at any time, and the lock is held      *)
(* exactly while one is; a caller of getInstallationToken does not move     *)
(* while the lock is held; the cache changes only in the step that ends the *)
(* Mint in flight; and the caller that gets the lock afterwards takes what  *)
(* the cache then holds: the cached token if it is valid, else it starts    *)
(* the next Mint.                                                           *)
C3_OneMintInFlight ==
    [][/\ MintsInFlight' <= 1
       /\ tokenMutex' <=> (MintsInFlight' = 1)
       /\ CacheChanges => MintsInFlight = 1 /\ MintsInFlight' = 0
       /\ \A t \in Tasks :
             task[t].pc = "getToken" =>
                /\ tokenMutex =>
                      /\ task'[t].pc = "getToken"
                      /\ task'[t].token = 0
                      /\ task'[t].trace = task[t].trace
                /\ task'[t].pc # "getToken" =>
                      IF CacheValid(now)
                      THEN /\ task'[t].token = installationToken
                           /\ task'[t].pc # "mint"
                      ELSE /\ task'[t].pc = "mint"
                           /\ task'[t].token = 0]_vars

(* one goroutine is in the Mint while another waits for the lock *)
C3_Witness ==
    \E t, u \in Tasks :
        /\ task[t].pc = "mint"
        /\ task[u].pc = "getToken"
        /\ task[u].get.mints = 1
        /\ tokenMutex

(* the step in which the call of goroutine t returns *)
LeavesGet(t) == InGet(task[t]) /\ ~InGet(task'[t])

(* what the call returns: the token, or 0 for an error *)
Returned(t) ==
    IF task'[t].status = StatusInternalServerError THEN 0 ELSE task'[t].token

C5_MintFailureLeavesCache ==
    [][\A t \in Tasks :
          /\ task[t].pc = "mint" /\ task'[t].pc # "mint"
                 /\ Returned(t) = 0 =>
                /\ UNCHANGED <<installationToken, installationTokenExpiry,
                               issued>>
                /\ ~tokenMutex'
                /\ task'[t].pc = "done"
                /\ task'[t].trace[Len(task'[t].trace)]
                       = <<"getInstallationToken", FALSE>>
                /\ task'[t].token = 0
                /\ MintsInFlight' = 0
          /\ task[t].pc = "getToken" /\ task'[t].pc # "getToken"
                 /\ ~CacheValid(now) =>
                /\ task'[t].pc = "mint"
                /\ tokenMutex'
                /\ MintsInFlight' = 1]_vars

(* a Mint failed with 500 and the cache kept its expired token; the caller  *)
(* that waited for the lock is in a Mint of its own                         *)
C5_Witness ==
    \E t, u \in Tasks :
        /\ task[t].pc = "done"
        /\ task[t].status = StatusInternalServerError
        /\ task[u].pc = "mint"
        /\ task[u].get.failed
        /\ task[u].get.mints = 2
        /\ installationToken = 1
        /\ ~CacheValid(now)

(* C6: after every step the cache holds, with a token, that token's         *)
(* upstream expiry less the safety margin of 3 minutes; a token is served   *)
(* from the cache only while now is before that stored expiry; and every    *)
(* token a call returns is, at that moment, more than the safety margin     *)
(* away from its upstream expiry.                                           *)
C6_SafetyMarginKept ==
    [][/\ installationToken' # 0 =>
             /\ installationToken' \in DOMAIN issued'
             /\ installationTokenExpiry'
                    = issued'[installationToken'] - SafetyMinutes * Minute
       /\ \A t \in Tasks :
             task[t].token = 0 /\ task'[t].token # 0 =>
                /\ task'[t].token \in DOMAIN issued'
                /\ issued'[task'[t].token] - now' > SafetyMinutes * Minute
                /\ task[t].pc = "getToken" =>
                      now < installationTokenExpiry]_vars

(* the request whose client was looked up at the last tick before the       *)
(* stored expiry is served the token minted at startup                      *)
C6_Witness ==
    \E t \in Tasks :
        /\ task[t].pc = "fetch"
        /\ task[t].token = 1
        /\ now = Validity - 1
        /\ clientLimiters[getClientIP(task[t].req)].lastSeen = now
        /\ issued[1] - now = SafetyMargin + 1

(* the cached credential is valid *)
CredentialValid == now < installationTokenExpiry

(* C7: a call that gets the lock while the cached credential is valid       *)
(* returns the cached token and leaves the token, its expiry, the lock and  *)
(* the Mint count as they were; the lock is never held, and no Mint starts, *)
(* while the credential is valid; every token a call returns is the one in  *)
(* the cache, the last one issued; and successive successful refreshes are  *)
(* at least a validity window apart.                                        *)
C7_ValidCacheIsServed ==
    [][/\ tokenMutex' => ~CredentialValid'
       /\ MintsInFlight' > MintsInFlight => ~CredentialValid
       /\ installationToken' = Len(issued')
       /\ \A i \in 1..(Len(issued') - 1) :
             issued'[i + 1] - issued'[i] >= Validity
       /\ \A t \in Tasks :
             /\ task[t].pc = "getToken" /\ task'[t].pc # "getToken"
                    /\ CredentialValid =>
                   /\ task'[t].token = installationToken
                   /\ task'[t].pc = "fetch"
                   /\ MintsInFlight' = 0
                   /\ UNCHANGED <<installationToken, installationTokenExpiry,
                                  issued, tokenMutex>>
             /\ task[t].token = 0 /\ task'[t].token # 0 =>
                   task'[t].token = installationToken']_vars

(* after the second refresh two requests hold its token *)
C7_Witness ==
    \E t, u \in Tasks :
        /\ t # u
        /\ task[t].pc = "fetch" /\ task[u].pc = "fetch"
        /\ task[t].token = 2 /\ task[u].token = 2
        /\ Len(issued) = 2
        /\ CredentialValid

-----------------------------------------------------------------------------
(* Properties of the rate gate *)

InRange(b) == 0 <= b.tokens /\ b.tokens <= b.burst * b.every

(* the goroutines whose step consults the bucket of client ip *)
AtClient(ip) ==
    {t \in Tasks : /\ task[t].pc = "allow"
                    /\ getClientIP(task[t].req) = ip
                    /\ task'[t].pc # "allow"}

(* the goroutines whose step consults the global bucket *)
AtGlobal == {t \in Tasks : task[t].pc = "global" /\ task'[t].pc # "global"}

(* One step seen from a bucket, b before and c after, consulted in this     *)
(* step by the goroutines of callers: it stays in range; an Allow on less   *)
(* than one token changes nothing and ends the request with 429 in the same *)
(* step; an Allow on a token or more takes exactly one; the bucket loses    *)
(* tokens in no other way, and gains them only as time passes, a tick's     *)
(* worth each tick up to the capacity.                                      *)
BucketStep(b, c, callers) ==
    /\ InRange(c)
    /\ c.every = b.every /\ c.burst = b.burst
    /\ \A t \in callers :
          /\ now' = now
          /\ IF b.tokens < b.every
             THEN /\ c = b
                  /\ task'[t].pc = "done"
                  /\ task'[t].status = StatusTooManyRequests
             ELSE /\ c.tokens = b.tokens - b.every
                  /\ task'[t].status # StatusTooManyRequests
    /\ c.tokens < b.tokens => callers # {}
    /\ now' = now => c.tokens <= b.tokens
    /\ now' > now =>
          c.tokens = Min(b.burst * b.every, b.tokens + (now' - now))

ClientBucket(ip) == limiters[clientLimiters[ip].limiter]

(* C8: the global bucket and every client's bucket hold between 0 tokens    *)
(* and their capacity after every step; tokens go down only by one token on *)
(* an admitted Allow and up only by the refill of the time passed, capped   *)
(* at the capacity; a rejected Allow leaves the bucket as it was and ends   *)
(* the request in the same step.                                            *)
C8_BucketsStayInRange ==
    [][/\ globalLimiter' # Nil => InRange(globalLimiter')
       /\ globalLimiter # Nil =>
             BucketStep(globalLimiter, globalLimiter', AtGlobal)
       /\ \A ip \in DOMAIN clientLimiters' : InRange(ClientBucket(ip)')
       /\ \A ip \in DOMAIN clientLimiters :
             /\ ip \in DOMAIN clientLimiters'
             /\ BucketStep(ClientBucket(ip), ClientBucket(ip)', AtClient(ip))
       /\ \A t \in Tasks :
             task'[t].pc = "allow" =>
                clientLimiters'[getClientIP(task'[t].req)].limiter
                   = task'[t].lim]_vars

(* a tick after it was emptied the client's bucket holds part of a token,   *)
(* and the request that then consulted it was rejected                      *)
C8_Witness ==
    \E t \in Tasks :
        /\ task[t].pc = "done"
        /\ task[t].status = StatusTooManyRequests
        /\ task[t].lim # 0
        /\ limiters[task[t].lim].tokens > 0
        /\ limiters[task[t].lim].tokens < limiters[task[t].lim].every
        /\ clientLimiters[getClientIP(task[t].req)].lastSeen = now
        /\ now > 0

(* the tokens taken from a bucket that was full and has not been refilled *)
Consumed(b) == (b.burst * b.every - b.tokens) \div b.every

(* the goroutines between the global Allow and the client's Allow *)
PastGlobal == {t \in Tasks : task[t].pc \in {"lookup", "allow"}}

(* the Allow calls made on the clients' buckets before any time has passed: *)
(* every request admitted by the global bucket makes one                    *)
ClientCalls == Consumed(globalLimiter) - Cardinality(PastGlobal)

C10_GlobalTokenNotRefunded ==
    [][/\ \A t \in Tasks :
             /\ task[t].pc = "global" /\ task'[t].pc = "lookup" =>
                   globalLimiter'.tokens
                      = globalLimiter.tokens - globalLimiter.every
             /\ task'[t].pc = "lookup" =>
                   task[t].pc \in {"global", "lookup"}
             /\ task'[t].pc = "allow" =>
                   task[t].pc \in {"lookup", "allow"}
             /\ task[t].pc \in {"lookup", "allow"} /\ task'[t] # task[t] =>
                   /\ globalLimiter' = globalLimiter
                   /\ Called(task'[t], "checkLimits") =>
                         task[t].pc = "allow"
       /\ globalLimiter # Nil /\ now' = now =>
             globalLimiter'.tokens <= globalLimiter.tokens]_vars

(* before any time has passed the one client has used its 8 tokens, and its *)
(* request is rejected by the global bucket, emptied by the requests that   *)
(* the client's bucket went on to reject                                    *)
C10_Witness ==
    \E t \in Tasks :
        /\ now = 0
        /\ task[t].pc = "done"
        /\ task[t].status = StatusTooManyRequests
        /\ task[t].lim = 0
        /\ Empty(globalLimiter)
        /\ Consumed(globalLimiter) > 8
        /\ \E ip \in DOMAIN clientLimiters :
              /\ DOMAIN clientLimiters = {ip}
              /\ Consumed(ClientBucket(ip)) = 8

(* the global bucket rejects the request of goroutine t in this step *)
GlobalRejects(t) == task[t].pc = "global" /\ task'[t].pc = "done"

(* C17: the step in which the global bucket rejects a request ends it with  *)
(* 429 and leaves the registry (its keys, their limiters, every lastSeen)   *)
(* and every client bucket as they were; the request holds no client        *)
(* limiter.  The registry and the client buckets change, time standing      *)
(* still, only by the step of a request that the global bucket has          *)
(* admitted, and a request reaches the lookup only from an admitting global *)
(* Allow.                                                                   *)
C17_GlobalRejectionTouchesNothing ==
    [][/\ \A t \in Tasks :
             /\ GlobalRejects(t) =>
                   /\ task'[t].status = StatusTooManyRequests
                   /\ Failed(task'[t], "checkLimits")
                   /\ task'[t].lim = 0
                   /\ globalLimiter.tokens < globalLimiter.every
                   /\ clientLimiters' = clientLimiters
                   /\ limiters' = limiters
             /\ task[t].pc = "global" /\ task'[t].pc = "lookup" =>
                   /\ globalLimiter.tokens >= globalLimiter.every
                   /\ clientLimiters' = clientLimiters
                   /\ limiters' = limiters
             /\ task'[t].lim # 0 /\ task[t].lim = 0 => task[t].pc = "lookup"
       /\ clientLimiters' # clientLimiters =>
             \E t \in Tasks : task[t].pc = "lookup" /\ task'[t].pc = "allow"
       /\ limiters' # limiters /\ now' = now =>
             \E t \in Tasks : /\ task[t].pc \in {"lookup", "allow"}
                              /\ task'[t] # task[t]]_vars

(* a second after the client emptied both buckets its bucket holds a token  *)
(* again and its entry is a second old; the global bucket, still empty, has *)
(* rejected its request, which took no client token and left lastSeen alone *)
C17_Witness ==
    \E t \in Tasks :
        /\ task[t].pc = "done"
        /\ task[t].status = StatusTooManyRequests
        /\ task[t].lim = 0
        /\ now = Second
        /\ getClientIP(task[t].req) \in DOMAIN clientLimiters
        /\ clientLimiters[getClientIP(task[t].req)].lastSeen = 0
        /\ ClientBucket(getClientIP(task[t].req)).tokens
              = ClientBucket(getClientIP(task[t].req)).every
        /\ globalLimiter.tokens < globalLimiter.every

(* the calls admitted by the clients' buckets since they were created full *)
RECURSIVE SumConsumed(_)
SumConsumed(heap) ==
    IF heap = <<>> THEN 0
    ELSE Consumed(heap[Len(heap)]) + SumConsumed(SubSeq(heap, 1, Len(heap) - 1))

(* the requests that have passed the global gate, counted before any time   *)
(* has passed, while no client bucket has been refilled or has rejected     *)
PassedAtStart == SumConsumed(limiters) + Cardinality(PastGlobal)

(* C18 as it stands: for every quota reply the global bucket is built with  *)
(* capacity = limit and, for a reset time ahead, one token per              *)
(* (resetAt - now) / limit; at most limit requests pass the global gate     *)
(* before any time has passed (the bound at T = 0); the bucket is never     *)
(* resized.                                                                 *)
C18_Original ==
    [][/\ globalLimiter' # Nil =>
             \E q \in {QuotaTight, QuotaPast} :
                /\ globalLimiter'.burst = q.limit
                /\ q.resetIn > 0 => globalLimiter'.every * q.limit = q.resetIn
                /\ now' = 0 => PassedAtStart' <= q.limit
       /\ globalLimiter # Nil =>
             /\ globalLimiter'.burst = globalLimiter.burst
             /\ globalLimiter'.every = globalLimiter.every]_vars

(* the client key that each request must get: the X-Real-IP value; else    *)
(* the first X-Forwarded-For element, trimmed; else the peer address up to  *)
(* its last colon                                                           *)
ExpectedKey(r) ==
    CASE r = ReqRealAndForwarded -> <<"9">>
      [] r = ReqForwardedList -> <<"7">>
      [] r = ReqForwardedOne -> <<"7">>
      [] r = ReqForwardedEmptyFirst -> <<>>
      [] r = ReqPeer -> <<"a">>
      [] r = ReqPeerV6 -> <<"[", ":", ":", "1", "]">>
      [] r = ReqPeerNoPort -> <<"a">>
      [] r = ReqRealA -> <<"a">>

(* C19: the lookup of a request registers, or finds, the registry entry of  *)
(* the key that the precedence X-Real-IP, first X-Forwarded-For element     *)
(* trimmed, peer address without its port gives, hands the request that     *)
(* entry's bucket and changes no other entry; the Allow that follows takes  *)
(* its token from that bucket alone; and distinct keys never share a        *)
(* bucket, so that two requests use the same bucket iff their keys are      *)
(* equal.                                                                   *)
C19_BucketByDerivedKey ==
    [][/\ \A t \in Tasks :
             LET key == ExpectedKey(task[t].req)
             IN  /\ task[t].pc = "lookup" /\ task'[t].pc = "allow" =>
                       /\ DOMAIN clientLimiters' = DOMAIN clientLimiters \cup {key}
                       /\ task'[t].lim = clientLimiters'[key].limiter
                       /\ key \in DOMAIN clientLimiters =>
                             clientLimiters'[key].limiter
                                = clientLimiters[key].limiter
                       /\ \A k \in DOMAIN clientLimiters \ {key} :
                             clientLimiters'[k] = clientLimiters[k]
                 /\ task[t].pc = "allow" /\ task'[t].pc # "allow" =>
                       /\ task[t].lim = clientLimiters[key].limiter
                       /\ \A i \in DOMAIN limiters :
                             i # task[t].lim => limiters'[i] = limiters[i]
       /\ \A k1, k2 \in DOMAIN clientLimiters' :
             k1 # k2 => clientLimiters'[k1].limiter # clientLimiters'[k2].limiter]_vars

(* the key a has one bucket, used twice, the last time by the request that  *)
(* names a in X-Real-IP from the peer b:1; the key 9 has another, used once *)
C19_Witness ==
    /\ task[1].pc = "done"
    /\ task[1].req = ReqRealA
    /\ DOMAIN clientLimiters = {<<"a">>, <<"9">>}
    /\ Len(limiters) = 2
    /\ Consumed(ClientBucket(<<"a">>)) = 2
    /\ Consumed(ClientBucket(<<"9">>)) = 1
    /\ task[1].lim = clientLimiters[<<"a">>].limiter

-----------------------------------------------------------------------------
(* Properties of the sweep *)

(* the step in which the cleanup goroutine sweeps the registry *)
Sweeps == cleanup.pc = "select" /\ cleanup'.pc = "sweep"

(* C11: a sweep with the idle TTL of 30 minutes removes exactly the entries *)
(* with now - lastSeen > TTL and keeps every entry with now - lastSeen <=   *)
(* TTL; it leaves the kept entries (their limiter and their lastSeen),      *)
(* every client bucket and the global bucket as they were.                  *)
C11_SweepRemovesExactlyStale ==
    [][Sweeps =>
          /\ DOMAIN clientLimiters'
                = {k \in DOMAIN clientLimiters :
                      now - clientLimiters[k].lastSeen <= 30 * Minute}
          /\ \A k \in DOMAIN clientLimiters' :
                clientLimiters'[k] = clientLimiters[k]
          /\ limiters' = limiters
          /\ globalLimiter' = globalLimiter
          /\ now' = now]_vars

(* the first sweep, two TTL after startup: of two entries it has removed    *)
(* the one that was 2*TTL old and kept the one that is TTL/2 old            *)
C11_Witness ==
    /\ cleanup.pc = "sweep"
    /\ cleanup.timer = IdleTTL
    /\ now = 2 * IdleTTL
    /\ Len(limiters) = 2
    /\ \E k \in DOMAIN clientLimiters :
          /\ DOMAIN clientLimiters = {k}
          /\ now - clientLimiters[k].lastSeen = IdleTTL \div 2

(* the goroutines that hold bucket i for a pending Allow *)
Holders(i) == {t \in Tasks : task[t].pc = "allow" /\ task[t].lim = i}

(* the buckets that the registry holds *)
Registered == {clientLimiters[k].limiter : k \in DOMAIN clientLimiters}

(* the admissions that the pending Allow calls on buckets outside the       *)
(* registry, the first n buckets of the heap, will get                      *)
RECURSIVE OrphanGrants(_)
OrphanGrants(n) ==
    IF n = 0 THEN 0
    ELSE OrphanGrants(n - 1)
           + (IF n \in Registered THEN 0
              ELSE Min(Tokens(limiters[n]), Cardinality(Holders(n))))

(* the admissions the one client can get with no more time passing: those   *)
(* of its registered bucket, or of the full bucket its next request will    *)
(* create, and those of the buckets that requests still hold                *)
Grantable ==
    (IF DOMAIN clientLimiters = {} THEN 8
     ELSE Tokens(limiters[CHOOSE i \in Registered : TRUE]))
       + OrphanGrants(Len(limiters))

(* C22 as it stands: when the sweep removes an entry its bucket is full and *)
(* no request holds it for a pending Allow; and at no time can the client   *)
(* get more admissions than a single bucket holds, 8.                       *)
C22_Original ==
    [][/\ Sweeps =>
             \A k \in DOMAIN clientLimiters \ DOMAIN clientLimiters' :
                /\ ClientBucket(k).tokens = Capacity(ClientBucket(k))
                /\ Holders(clientLimiters[k].limiter) = {}
       /\ Grantable' <= 8]_vars

-----------------------------------------------------------------------------
(* Properties of the path checks *)

(* the segments of a URL path: what stands between its slashes *)
Segments(path) == Split(SubSeq(path, 2, Len(path)), "/")

(* a request that was admitted and has its credential *)
HasCredential(rec) == rec.token # 0

(* C12 as it stands: an admitted GET with a credential, one of whose path   *)
(* segments starts with a dot, is answered 403 and GetFileContent is not    *)
(* called; a path of three segments or more, none starting with a dot,      *)
(* reaches GetFileContent.                                                  *)
C12_Original ==
    \A t \in Tasks :
        LET rec == task[t]
            segs == Segments(rec.req.path)
            dotted == \E i \in DOMAIN segs :
                         Len(segs[i]) > 0 /\ segs[i][1] = "."
        IN  HasCredential(rec) /\ Len(segs) >= 3 =>
               IF dotted
               THEN /\ rec.pc = "done"
                    /\ rec.status = StatusForbidden
                    /\ ~Called(rec, "GetFileContent")
               ELSE <<"safety", TRUE>> \in {rec.trace[i] : i \in DOMAIN rec.trace}

(* C13 as it stands: an admitted GET with a credential whose path does not  *)
(* supply an owner, a repo and a remaining path is answered 400 and         *)
(* GetFileContent is not called; a path that supplies the three passes the  *)
(* parse step.                                                              *)
C13_Original ==
    \A t \in Tasks :
        LET rec == task[t]
            segs == Segments(rec.req.path)
            supplied == /\ Len(segs) >= 3
                        /\ \A i \in 1..3 : segs[i] # <<>>
        IN  HasCredential(rec) =>
               IF supplied
               THEN <<"parse", TRUE>> \in {rec.trace[i] : i \in DOMAIN rec.trace}
               ELSE /\ rec.pc = "done"
                    /\ rec.status = StatusBadRequest
                    /\ ~Called(rec, "GetFileContent")

(* C15 as it stands: the sweep task never holds limiterMutex while it      *)
(* waits, a request waiting for the registry always gets it, and once the   *)
(* context is cancelled the started task eventually returns and no sweep    *)
(* begins.                                                                  *)
C15_Original ==
    /\ [](cleanup.pc \in {"off", "select", "returned"} => ~limiterMutex)
    /\ [][ctxDone => ~Sweeps]_vars
    /\ \A t \in {1} : (task[t].pc = "lookup") ~> (task[t].pc # "lookup")
    /\ (ctxDone /\ cleanup.pc # "off") ~> (cleanup.pc = "returned")

(* C15, amended: the sweep task takes limiterMutex only for the deletion,  *)
(* when its timer has fired, and never holds it while it waits for the      *)
(* timer or the cancellation, so a request waiting for the registry always  *)
(* gets it; once the context is cancelled the started task eventually       *)
(* returns, and having returned it takes no step and begins no sweep.       *)
C15_SweepTaskReturnsOnCancel ==
    /\ [](cleanup.pc \in {"off", "select", "returned"} => ~limiterMutex)
    /\ [][cleanup.pc = "returned" => cleanup' = cleanup /\ ~Sweeps]_vars
    /\ [][Sweeps => limiterMutex' /\ ~limiterMutex /\ now >= cleanup.timer]_vars
    /\ \A t \in {1} : (task[t].pc = "lookup") ~> (task[t].pc # "lookup")
    /\ (ctxDone /\ cleanup.pc # "off") ~> (cleanup.pc = "returned")

(* the task has returned on cancellation, after a sweep that emptied the   *)
(* registry of a client that had been served                                *)
C15_Witness ==
    /\ cleanup.pc = "returned"
    /\ ctxDone
    /\ ~limiterMutex
    /\ Len(limiters) = 1
    /\ DOMAIN clientLimiters = {}

-----------------------------------------------------------------------------
(* Properties of the shutdown *)

(* the handler of goroutine t starts on a request in this step *)
Enters(t) == task[t].pc \in {"idle", "done"} /\ task'[t] # task[t]

(* the request of goroutine t is answered 503 in this step, after the       *)
(* liveness check alone, and no bucket, registry entry or credential changes *)
Refused(t) ==
    /\ task'[t].pc = "done"
    /\ task'[t].status = StatusServiceUnavailable
    /\ StepNames(task'[t]) = <<"liveness">>
    /\ task'[t].lim = 0 /\ task'[t].token = 0 /\ task'[t].reply = Nil
    /\ globalLimiter' = globalLimiter
    /\ limiters' = limiters
    /\ clientLimiters' = clientLimiters
    /\ issued' = issued
    /\ installationToken' = installationToken

(* C16: a request whose handler starts after the signal is answered 503     *)
(* with no token consumed and neither Mint nor Fetch called; once main has  *)
(* called server.Shutdown no request starts; a request in flight is ended   *)
(* by the process only when 5 seconds have passed since then; main then     *)
(* exits, with no request in flight or with the deadline passed, and after  *)
(* a signal it always exits.                                                *)
C16_ShutdownRefusesThenExits ==
    /\ [][\A t \in Tasks : Enters(t) /\ ctxDone => Refused(t)]_vars
    /\ [][\A t \in Tasks : Enters(t) => mainPc = "serving"]_vars
    /\ [][\A t \in Tasks :
            task[t].pc # "killed" /\ task'[t].pc = "killed"
                => /\ InFlight(task[t])
                   /\ mainPc' = "exited"
                   /\ now >= shutdownAt + 5 * Second]_vars
    /\ [][mainPc = "shutdown" /\ mainPc' = "exited"
            => /\ \/ \A t \in Tasks : ~InFlight(task[t])
                  \/ now >= shutdownAt + 5 * Second
               /\ \A t \in Tasks : ~InFlight(task'[t])]_vars
    /\ [](mainPc = "exited" => [](mainPc = "exited" /\ \A t \in Tasks : ~InFlight(task[t])))
    /\ ctxDone ~> (mainPc = "exited")

(* the process has exited at the deadline with one request refused after    *)
(* the signal and another, in flight since before it, ended unanswered      *)
C16_Witness ==
    /\ mainPc = "exited"
    /\ now = shutdownAt + Grace
    /\ \E t, u \in Tasks :
          /\ task[t].pc = "done" /\ task[t].status = StatusServiceUnavailable
          /\ task[u].pc = "killed" /\ Called(task[u], "checkLimits")

-----------------------------------------------------------------------------
(* Properties of the fetch *)

(* the request has called GetFileContent and has its answer *)
Fetched(rec) == rec.pc = "done" /\ Called(rec, "GetFileContent")

(* every upstream call made for the request succeeded *)
UpstreamSucceeded(reply) ==
    /\ reply.meta.transport = "ok"
    /\ reply.meta.status = StatusOK
    /\ reply.meta.json
    /\ IF reply.downloads > 0
       THEN /\ reply.dl.transport = "ok"
            /\ reply.dl.status = StatusOK
            /\ reply.dl.readable
       ELSE reply.meta.content = InlineFile

(* C14 as it stands: a request that called GetFileContent is answered 200   *)
(* with bytes exactly when every upstream call made for it succeeded, and   *)
(* 404 otherwise; the metadata query is made once and the download at most  *)
(* once.                                                                    *)
C14_Original ==
    \A t \in Tasks :
        Fetched(task[t]) =>
            /\ task[t].reply.downloads <= 1
            /\ IF UpstreamSucceeded(task[t].reply)
               THEN task[t].status = StatusOK /\ task[t].body # Nil
               ELSE task[t].status = StatusNotFound /\ task[t].body = Nil

(* C20 as it stands: a request answered 200 made exactly one download call  *)
(* if the metadata reports more than 1048576 bytes, and none otherwise; its *)
(* bytes are those of the download, or the decoded inline payload; in both  *)
(* cases they are the file's bytes.                                         *)
C20_Original ==
    \A t \in Tasks :
        Fetched(task[t]) /\ task[t].status = StatusOK =>
            LET reply == task[t].reply
            IN  /\ IF reply.meta.size > 1048576
                   THEN /\ reply.downloads = 1
                        /\ task[t].body.content = reply.dl.body
                   ELSE /\ reply.downloads = 0
                        /\ reply.dl = Nil
                /\ task[t].body.content = FileBytes

-----------------------------------------------------------------------------
(* Properties of the startup *)

(* C23: a handler takes a step only while the process serves, with the      *)
(* global bucket built and the startup Mint done, and its step, whatever    *)
(* status it answers, leaves the process serving; the process starts to     *)
(* serve only from a successful quota query that follows a successful Mint; *)
(* it exits only from a failed startup Mint or quota query, with no bucket  *)
(* built and no request handled, and does nothing afterwards.               *)
C23_ServesOnlyAfterStartup ==
    [][/\ \A t \in Tasks :
             /\ task'[t] # task[t] =>
                   /\ mainPc = "serving" /\ mainPc' = "serving"
                   /\ globalLimiter # Nil
                   /\ Len(issued) >= 1
             /\ task'[t].pc = "global" => globalLimiter' # Nil
       /\ mainPc # "serving" /\ mainPc' = "serving" =>
             /\ mainPc = "quota"
             /\ globalLimiter = Nil /\ globalLimiter' # Nil
             /\ installationToken' # 0
             /\ Len(issued') = 1
       /\ mainPc' = "quota" => mainPc \in {"mint", "quota"} /\ Len(issued') = 1
       /\ mainPc # "exited" /\ mainPc' = "exited" =>
             /\ mainPc \in {"mint", "quota"}
             /\ globalLimiter' = Nil
             /\ \A t \in Tasks : task'[t] = IdleTask
       /\ mainPc = "exited" => mainPc' = "exited" /\ task' = task]_vars

(* the process serves after a request whose Mint failed was answered 500 *)
C23_Witness ==
    /\ mainPc = "serving"
    /\ globalLimiter # Nil
    /\ \E t \in Tasks :
          /\ task[t].pc = "done"
          /\ task[t].status = StatusInternalServerError
          /\ Failed(task[t], "getInstallationToken")

=============================================================================
